---------------------------- MODULE Spec2Model ----------------------------
(* A model of the interrupt subsystem of go-tutl (interrupt.go):           *)
(* ShowStackOnInterrupt, the watcher that waits for SIGINT, drains the     *)
(* registered functions in reverse order and ends the process, and         *)
(* AtInterrupt, which registers a function.  Every goroutine is a process  *)
(* of the model and every statement that touches shared state is a step.   *)
EXTENDS Integers, Sequences, FiniteSets, TLC

(* ------------------------------ bounds -------------------------------- *)

\* Number of AtInterrupt calls made by the registering goroutines.
MaxRegs == 2

\* Goroutines that call ShowStackOnInterrupt (again, once a call returned).
Starters == {"s1", "s2"}

\* Goroutines that call AtInterrupt (each may call it repeatedly).
Registrants == {"r1", "r2"}

Procs == Starters \cup Registrants

\* The callbacks that get registered: "f" just returns, "reg" calls back
\* into the package, AtInterrupt("f") or ShowStackOnInterrupt(...), and "boom"
\* panics.
Funcs == {"f", "reg", "boom"}

\* The arguments of ShowStackOnInterrupt(show ...bool): none, true, false.
ShowArgs == {"none", "true", "false"}

NoOne == "free"

\* The TUTL variables of a test (t_test.go: u, o, p).
Objs == {"u1", "u2"}

\* No TUTL variable (the functions of the package work on Default).
NoObj == "package"

\* The Options of a TUTL variable that New has not been assigned to yet.
NoOptions ==
    [ doNotEscape |-> "", LineWidth |-> 0, Digits32 |-> 0, Digits64 |-> 0 ]

\* Values a test gives to EscapeNewline, LineWidth, Digits32 and Digits64.
Widths == {72, 40}

Digits32Values == {5, 3}

Digits64Values == {12, 9}

\* The FakeTester values of a program: StdoutTester and one it makes itself.
Testers == {"StdoutTester", "mine"}

\* The texts given to Log and Error (args) and to Logf and Errorf (format).
Msgs == { << >>, << "x" >>, << "x", "\n" >> }

\* var Default = Options{...}
InitialOptions ==
    [ doNotEscape |-> "\n", LineWidth |-> 72, Digits32 |-> 5, Digits64 |-> 12 ]

(* ------------------------------ state --------------------------------- *)

VARIABLES
    atInterrupt,  \* var atInterrupt []func()
    aiMu,         \* var aiMu sync.Mutex: its holder, or NoOne
    running,      \* var running int
    skip,         \* var skip bool
    pc,           \* position of each ShowStackOnInterrupt call
    show,         \* its argument
    cp,           \* its local reversed copy
    idx,          \* its position in the range loop over cp
    seen,         \* the value skip had when the watcher last took the mutex
    subscribed,   \* the goroutines whose sig channel signal.Notify registered
    sigchan,      \* number of signals buffered in each sig channel (capacity 1)
    apc,          \* position of each goroutine inside AtInterrupt
    arg,          \* the argument f of its AtInterrupt call
    tmp,          \* the slice value append() read
    ret,          \* what the last AtInterrupt call to return returned
    exit,         \* how the process ended, "none" while it runs
    status,       \* the exit status, 0 while none is set
    stderr,       \* what was written to standard error
    traceback,    \* the runtime's traceback level
    hist,         \* history of the run, read by the properties only
    Default,      \* var Default Options
    tutl,         \* the Options field o of each TUTL variable
    last,         \* the last call made on the options, read by the properties
    fake,         \* the HasFailed field of each FakeTester
    output,       \* what was written to the Output of each FakeTester
    fhist         \* history of the calls on the FakeTesters

vars == << atInterrupt, aiMu, running, skip, pc, show, cp, idx, seen,
           subscribed, sigchan, apc, arg, tmp, ret, exit, status, stderr,
           traceback, hist, Default, tutl, last, fake, output, fhist >>

intvars == << atInterrupt, aiMu, running, skip, pc, show, cp, idx, seen,
              subscribed, sigchan, apc, arg, tmp, ret, exit, status, stderr,
              traceback, hist >>

optvars == << Default, tutl, last >>

fakevars == << fake, output, fhist >>

globals == << atInterrupt, aiMu, running, skip >>
startLocals == << pc, show, cp, idx >>
atLocals == << apc, arg, tmp, ret >>
signals == << subscribed, sigchan >>
outcome == << exit, status, stderr, traceback >>

(* ----------------------------- helpers -------------------------------- *)

Reverse(s) == [i \in 1..Len(s) |-> s[Len(s) + 1 - i]]

IsPrefix(s, t) == Len(s) <= Len(t) /\ SubSeq(t, 1, Len(s)) = s

IsSuffix(s, t) == Len(s) <= Len(t) /\ SubSeq(t, Len(t) - Len(s) + 1, Len(t)) = s

Count(s, x) == Cardinality({i \in 1..Len(s) : s[i] = x})

Alive == exit = "none"

(* ------------------------------- Init --------------------------------- *)

Init ==
    /\ atInterrupt = << >>
    /\ aiMu = NoOne
    /\ running = 0
    /\ skip = TRUE
    /\ pc = [p \in Starters |-> "idle"]
    /\ show = [p \in Starters |-> "unset"]
    /\ cp = [p \in Starters |-> << >>]
    /\ idx = [p \in Starters |-> 0]
    /\ seen = [p \in Starters |-> TRUE]
    /\ subscribed = {}
    /\ sigchan = [p \in Starters |-> 0]
    /\ apc = [p \in Procs |-> "idle"]
    /\ arg = [p \in Procs |-> "nil"]
    /\ tmp = [p \in Procs |-> << >>]
    /\ ret = "nil"
    /\ exit = "none"
    /\ status = 0
    /\ stderr = << >>
    /\ traceback = "single"
    /\ hist = [ calls |-> 0,            \* AtInterrupt calls made by Registrants
                completed |-> 0,        \* AtInterrupt calls that have returned
                lockOrder |-> << >>,    \* arguments of the AtInterrupt calls, in the
                                        \* order in which they got the mutex
                callers |-> {},         \* the goroutines that made them
                returned |-> << >>,     \* arguments of the calls that have returned
                delivered |-> FALSE,    \* a signal was put into a sig channel
                sentSnap |-> << >>,     \* hist.returned when that signal was sent
                fatalAtSignal |-> FALSE, \* hist.fatalReq when that signal was sent
                notifies |-> 0,         \* signal.Notify calls
                received |-> FALSE,     \* a watcher received the signal
                fatalReq |-> FALSE,     \* a ShowStackOnInterrupt call with no argument or
                                        \* true executed lines 32-35
                duplicate |-> FALSE,    \* a ShowStackOnInterrupt call returned at line 38
                snapTaken |-> FALSE,    \* the reversed copy was made
                fatalAtSnap |-> FALSE,  \* fatalReq when the watcher locked for the copy
                snapAt |-> << >>,       \* atInterrupt when the copy was made
                returnedAtSnap |-> << >>, \* hist.returned when the copy was made
                invoked |-> << >>,      \* functions the drain has called
                handlersDone |-> 0 ]    \* how many of them have returned
    /\ Default = InitialOptions
    /\ tutl = [u \in Objs |-> NoOptions]
    /\ last = [op |-> "none", obj |-> NoObj, b |-> FALSE, n |-> 0]
    /\ fake = [t \in Testers |-> [HasFailed |-> FALSE]]
    /\ output = [t \in Testers |-> {}]
    /\ fhist = [ initial |-> [t \in Testers |-> FALSE],  \* HasFailed as constructed
                 errored |-> {} ]        \* the testers Error or Errorf was called on


(* ----------------------- the pieces of the code ----------------------- *)

\* (mutation: Lock() that never waits)
MutexFreeAlways == TRUE

\* aiMu.Lock() returns only when nobody holds the mutex.
MutexFree == aiMu = NoOne

\* (mutation: the test for "no argument" left out)
WantsFatalOnlyExplicit(a) == a = "true"

\* (mutation: a test that no argument fails)
WantsFatalAlways(a) == TRUE

\* 0 == len(show) || show[0]
WantsFatal(a) == a = "none" \/ a = "true"

\* (mutation: an else branch that sets skip again)
NewSkipWithElse(a) == IF WantsFatal(a) THEN FALSE ELSE TRUE

\* (mutation: the last call decides)
NewSkipLastWins(a) == ~WantsFatal(a)

\* (mutation: only the call that becomes the watcher sets the mode)
NewSkipIfFirst(a) == IF WantsFatal(a) /\ running = 0 THEN FALSE ELSE skip

\* if 0 == len(show) || show[0] { skip = false }: the value of skip after it
NewSkip(a) == IF WantsFatal(a) THEN FALSE ELSE skip

\* (mutation: the increment left out)
NewRunningForgotten == running

\* running++
NewRunning == running + 1

\* (mutation: the receive does not wait)
SignalPendingAlways(p) == TRUE

\* _ = <-sig returns when the channel holds a signal
SignalPending(p) == sigchan[p] > 0

\* (mutation: a recover() around the call)
PanicsNever(f) == FALSE

\* ai() with nothing deferred around it: a panic of the function leaves
\* ShowStackOnInterrupt
Panics(f) == f = "boom"

\* (mutation: off by one)
AlreadyRunningOffByOne == 1 < running

\* 0 < running
AlreadyRunning == 0 < running

\* (mutation: a copy that is not reversed)
ForwardCopy(s) == s

\* cp := make([]func(), len(atInterrupt)); cp[len(cp)-1-i] = ai
ReversedCopy(s) == [i \in 1..Len(s) |-> s[Len(s) + 1 - i]]

\* (mutation: the slice is replaced, not extended)
AppendHandlerReplace(s, f) == << f >>

\* (mutation: the new entry put in front)
AppendHandlerFront(s, f) == << f >> \o s

\* (mutation: a function that is already registered is not added again)
AppendHandlerUnique(s, f) == IF \E i \in 1..Len(s) : s[i] = f THEN s ELSE Append(s, f)

\* append(atInterrupt, f), applied to the slice value that was read
AppendHandler(s, f) == Append(s, f)

\* (mutation: the loop ranges over the list itself, not over the copy)
DrainSourceLive(p) == [i \in 1..Len(atInterrupt) |-> atInterrupt[Len(atInterrupt) + 1 - i]]

\* for _, ai := range cp: the slice the loop ranges over
DrainSource(p) == cp[p]

\* (mutation: the loop stops one element early)
DrainDoneEarly(p) == idx[p] >= Len(DrainSource(p))

\* the loop is over when every element was visited
DrainDone(p) == idx[p] > Len(DrainSource(p))

\* the element the range loop calls next
NextHandler(p) == DrainSource(p)[idx[p]]

\* (mutation: the panic is never reached)
ModeBranchAlwaysQuiet(v) == "print"

\* (mutation: the panic left out, the function returns)
ModeBranchQuietOrReturn(v) == IF v THEN "print" ELSE "returned"

\* (mutation: the test negated)
ModeBranchInverted(v) == IF v THEN "trace" ELSE "print"

\* if skip { ...; os.Exit(1) }; ...; panic("Interrupted")
ModeBranch(v) == IF v THEN "print" ELSE "trace"

\* The plain read of skip in "if skip" is not ordered after writes made
\* under the mutex since this goroutine last held it: it yields the value
\* its last acquisition guarantees, or any value written since.
SkipReadValues(p) == {seen[p], skip}

(* --------------------- ShowStackOnInterrupt(show...) ------------------ *)

\* go ShowStackOnInterrupt(a), up to line 35: aiMu.Lock() and
\* if 0 == len(show) || show[0] { skip = false }
StartLock(p, a) ==
    /\ Alive
    /\ pc[p] = "idle"
    /\ MutexFree
    /\ aiMu' = p
    /\ show' = [show EXCEPT ![p] = a]
    /\ skip' = NewSkip(a)
    /\ pc' = [pc EXCEPT ![p] = "check"]
    /\ hist' = [hist EXCEPT !.fatalReq = @ \/ a \in {"none", "true"}]
    /\ UNCHANGED << atInterrupt, running, cp, idx, seen, signals, atLocals, outcome >>
    /\ UNCHANGED << optvars, fakevars >>

\* (mutation: the early return without its Unlock)
StartDuplicateNoUnlock(p) ==
    /\ Alive
    /\ pc[p] = "check"
    /\ AlreadyRunning
    /\ pc' = [pc EXCEPT ![p] = "idle"]
    /\ show' = [show EXCEPT ![p] = "unset"]
    /\ hist' = [hist EXCEPT !.duplicate = TRUE]
    /\ UNCHANGED << globals, cp, idx, seen, signals, atLocals, outcome >>
    /\ UNCHANGED << optvars, fakevars >>

\* lines 36-39: if 0 < running { aiMu.Unlock(); return }
StartDuplicate(p) ==
    /\ Alive
    /\ pc[p] = "check"
    /\ AlreadyRunning
    /\ aiMu' = NoOne
    /\ pc' = [pc EXCEPT ![p] = "idle"]
    /\ show' = [show EXCEPT ![p] = "unset"]
    /\ hist' = [hist EXCEPT !.duplicate = TRUE]
    /\ UNCHANGED << atInterrupt, running, skip, cp, idx, seen, signals,
                    atLocals, outcome >>
    /\ UNCHANGED << optvars, fakevars >>

\* lines 40-41: running++; aiMu.Unlock()
StartActivate(p) ==
    /\ Alive
    /\ pc[p] = "check"
    /\ ~AlreadyRunning
    /\ running' = NewRunning
    /\ aiMu' = NoOne
    /\ pc' = [pc EXCEPT ![p] = "notify"]
    /\ UNCHANGED << atInterrupt, skip, show, cp, idx, seen, signals,
                    atLocals, outcome, hist >>
    /\ UNCHANGED << optvars, fakevars >>

\* lines 43-44: sig := make(chan os.Signal, 1); signal.Notify(sig, SIGINT)
StartNotify(p) ==
    /\ Alive
    /\ pc[p] = "notify"
    /\ subscribed' = subscribed \cup {p}
    /\ pc' = [pc EXCEPT ![p] = "wait"]
    /\ hist' = [hist EXCEPT !.notifies = @ + 1]
    /\ UNCHANGED << globals, show, cp, idx, seen, sigchan, atLocals, outcome >>
    /\ UNCHANGED << optvars, fakevars >>

\* line 45: _ = <-sig
StartReceive(p) ==
    /\ Alive
    /\ pc[p] = "wait"
    /\ SignalPending(p)
    /\ sigchan' = [sigchan EXCEPT ![p] = @ - 1]
    /\ pc' = [pc EXCEPT ![p] = "lock2"]
    /\ hist' = [hist EXCEPT !.received = TRUE]
    /\ UNCHANGED << globals, show, cp, idx, seen, subscribed, atLocals, outcome >>
    /\ UNCHANGED << optvars, fakevars >>

\* lines 47-52: aiMu.Lock() and the reversed copy of atInterrupt
DrainCopy(p) ==
    /\ Alive
    /\ pc[p] = "lock2"
    /\ MutexFree
    /\ aiMu' = p
    /\ seen' = [seen EXCEPT ![p] = skip]
    /\ cp' = [cp EXCEPT ![p] = ReversedCopy(atInterrupt)]
    /\ pc' = [pc EXCEPT ![p] = "unlock2"]
    /\ hist' = [hist EXCEPT !.snapTaken = TRUE,
                            !.fatalAtSnap = hist.fatalReq,
                            !.snapAt = atInterrupt,
                            !.returnedAtSnap = hist.returned]
    /\ UNCHANGED << atInterrupt, running, skip, show, idx, signals,
                    atLocals, outcome >>
    /\ UNCHANGED << optvars, fakevars >>

\* (mutation: the Unlock of line 53 left out)
DrainUnlockForgotten(p) ==
    /\ Alive
    /\ pc[p] = "unlock2"
    /\ idx' = [idx EXCEPT ![p] = 1]
    /\ pc' = [pc EXCEPT ![p] = "loop"]
    /\ UNCHANGED << globals, show, cp, seen, signals, atLocals, outcome, hist >>
    /\ UNCHANGED << optvars, fakevars >>

\* line 53: aiMu.Unlock(), and the range loop of line 56 starts
DrainUnlock(p) ==
    /\ Alive
    /\ pc[p] = "unlock2"
    /\ aiMu' = NoOne
    /\ idx' = [idx EXCEPT ![p] = 1]
    /\ pc' = [pc EXCEPT ![p] = "loop"]
    /\ UNCHANGED << atInterrupt, running, skip, show, cp, seen, signals,
                    atLocals, outcome, hist >>
    /\ UNCHANGED << optvars, fakevars >>

\* (mutation: go ai(), the loop does not wait for the function to return)
HandlerBeginAsync(p) ==
    /\ Alive
    /\ pc[p] = "loop"
    /\ ~DrainDone(p)
    /\ hist' = [hist EXCEPT !.invoked = Append(@, NextHandler(p))]
    /\ idx' = [idx EXCEPT ![p] = @ + 1]
    /\ UNCHANGED << globals, pc, show, cp, seen, signals, atLocals, outcome >>
    /\ UNCHANGED << optvars, fakevars >>

\* line 57: ai() is called.  "f" runs, "reg" calls AtInterrupt("f") or
\* ShowStackOnInterrupt, and "boom" panics: nothing recovers the panic, the
\* goroutine dies with it and the runtime ends the process with status 2.
HandlerBegin(p) ==
    /\ Alive
    /\ pc[p] = "loop"
    /\ ~DrainDone(p)
    /\ hist' = [hist EXCEPT !.invoked = Append(@, NextHandler(p))]
    /\ IF Panics(NextHandler(p))
          THEN /\ exit' = "handlerpanic"
               /\ status' = 2
               /\ stderr' = stderr \o << "panic: boom", "goroutine stacks" >>
               /\ pc' = [pc EXCEPT ![p] = "panicked"]
               /\ UNCHANGED << apc, arg >>
          ELSE /\ pc' = [pc EXCEPT ![p] = "handler"]
               /\ IF NextHandler(p) = "reg"
                     THEN \/ /\ apc' = [apc EXCEPT ![p] = "lock"]
                             /\ arg' = [arg EXCEPT ![p] = "f"]
                          \/ /\ apc' = [apc EXCEPT ![p] = "start"]
                             /\ arg' = arg
                     ELSE UNCHANGED << apc, arg >>
               /\ UNCHANGED << exit, status, stderr >>
    /\ UNCHANGED << globals, show, cp, idx, seen, signals, tmp, ret, traceback >>
    /\ UNCHANGED << optvars, fakevars >>

\* The registered function calls ShowStackOnInterrupt(a), lines 32-35.
NestedStartLock(p, a) ==
    /\ Alive
    /\ pc[p] = "handler"
    /\ apc[p] = "start"
    /\ MutexFree
    /\ aiMu' = p
    /\ skip' = NewSkip(a)
    /\ seen' = [seen EXCEPT ![p] = skip']
    /\ apc' = [apc EXCEPT ![p] = "check"]
    /\ hist' = [hist EXCEPT !.fatalReq = @ \/ a \in {"none", "true"}]
    /\ UNCHANGED << atInterrupt, running, startLocals, signals, arg, tmp, ret,
                    outcome >>
    /\ UNCHANGED << optvars, fakevars >>

\* Lines 36-39 of that call: a watcher is running (the caller), so it
\* returns.  (Were none running, the call would wait for a signal inside
\* the registered function.)
NestedStartDuplicate(p) ==
    /\ Alive
    /\ pc[p] = "handler"
    /\ apc[p] = "check"
    /\ AlreadyRunning
    /\ aiMu' = NoOne
    /\ apc' = [apc EXCEPT ![p] = "idle"]
    /\ hist' = [hist EXCEPT !.duplicate = TRUE]
    /\ UNCHANGED << atInterrupt, running, skip, startLocals, seen, signals,
                    arg, tmp, ret, outcome >>
    /\ UNCHANGED << optvars, fakevars >>

\* line 57: ai() returns, and the loop moves to the next element
HandlerReturn(p) ==
    /\ Alive
    /\ pc[p] = "handler"
    /\ apc[p] = "idle"
    /\ idx' = [idx EXCEPT ![p] = @ + 1]
    /\ pc' = [pc EXCEPT ![p] = "loop"]
    /\ hist' = [hist EXCEPT !.handlersDone = @ + 1]
    /\ UNCHANGED << globals, show, cp, seen, signals, atLocals, outcome >>
    /\ UNCHANGED << optvars, fakevars >>

\* (mutation: the body in a loop, the watcher waits for the next signal)
ReadSkipWaitAgain(p) ==
    /\ Alive
    /\ pc[p] = "loop"
    /\ DrainDone(p)
    /\ pc' = [pc EXCEPT ![p] = "wait"]
    /\ UNCHANGED << globals, show, cp, idx, seen, signals, atLocals, outcome, hist >>
    /\ UNCHANGED << optvars, fakevars >>

\* line 60: if skip, read without the mutex
ReadSkip(p) ==
    /\ Alive
    /\ pc[p] = "loop"
    /\ DrainDone(p)
    /\ \E v \in SkipReadValues(p) :
          pc' = [pc EXCEPT ![p] = ModeBranch(v)]
    /\ UNCHANGED << globals, show, cp, idx, seen, signals, atLocals, outcome, hist >>
    /\ UNCHANGED << optvars, fakevars >>

\* lines 61-62: fmt.Fprintln(os.Stderr, "Interrupted."); os.Exit(1)
QuietExit(p) ==
    /\ Alive
    /\ pc[p] = "print"
    /\ stderr' = Append(stderr, "Interrupted.")
    /\ exit' = "quiet"
    /\ status' = 1
    /\ pc' = [pc EXCEPT ![p] = "exited"]
    /\ UNCHANGED << globals, show, cp, idx, seen, signals, atLocals, traceback, hist >>
    /\ UNCHANGED << optvars, fakevars >>

\* lines 64-65: debug.SetTraceback("all"); panic("Interrupted").  Nothing
\* recovers the panic: the runtime prints it with the stack of every
\* goroutine and ends the process with status 2.
FatalExit(p) ==
    /\ Alive
    /\ pc[p] = "trace"
    /\ traceback' = "all"
    /\ stderr' = stderr \o << "panic: Interrupted", "goroutine stacks (all)" >>
    /\ exit' = "fatal"
    /\ status' = 2
    /\ pc' = [pc EXCEPT ![p] = "exited"]
    /\ UNCHANGED << globals, show, cp, idx, seen, signals, atLocals, hist >>
    /\ UNCHANGED << optvars, fakevars >>

(* ---------------------------- AtInterrupt(f) -------------------------- *)

\* A registering goroutine calls AtInterrupt(f); line 91: aiMu.Lock(), and
\* line 93: append reads the slice ...
AtCall(p, f) ==
    /\ Alive
    /\ p \in Registrants
    /\ apc[p] = "idle"
    /\ hist.calls < MaxRegs
    /\ MutexFree
    /\ aiMu' = p
    /\ arg' = [arg EXCEPT ![p] = f]
    /\ tmp' = [tmp EXCEPT ![p] = atInterrupt]
    /\ apc' = [apc EXCEPT ![p] = "write"]
    /\ hist' = [hist EXCEPT !.calls = @ + 1,
                            !.lockOrder = Append(@, f),
                            !.callers = @ \cup {p}]
    /\ UNCHANGED << atInterrupt, running, skip, startLocals, seen, signals,
                    ret, outcome >>
    /\ UNCHANGED << optvars, fakevars >>

\* The same two lines in the call a registered function makes while the
\* watcher runs it.
AtLock(p) ==
    /\ Alive
    /\ apc[p] = "lock"
    /\ MutexFree
    /\ aiMu' = p
    /\ seen' = [seen EXCEPT ![p] = skip]
    /\ tmp' = [tmp EXCEPT ![p] = atInterrupt]
    /\ apc' = [apc EXCEPT ![p] = "write"]
    /\ hist' = [hist EXCEPT !.lockOrder = Append(@, arg[p]),
                            !.callers = @ \cup {p}]
    /\ UNCHANGED << atInterrupt, running, skip, startLocals, signals,
                    arg, ret, outcome >>
    /\ UNCHANGED << optvars, fakevars >>

\* (mutation: AtInterrupt also marks a watcher as running)
AtWriteActivates(p) ==
    /\ Alive
    /\ apc[p] = "write"
    /\ atInterrupt' = Append(tmp[p], arg[p])
    /\ running' = 1
    /\ tmp' = [tmp EXCEPT ![p] = << >>]
    /\ apc' = [apc EXCEPT ![p] = "unlock"]
    /\ UNCHANGED << aiMu, skip, startLocals, seen, signals,
                    arg, ret, outcome, hist >>
    /\ UNCHANGED << optvars, fakevars >>

\* ... and the result is assigned to atInterrupt
AtWrite(p) ==
    /\ Alive
    /\ apc[p] = "write"
    /\ atInterrupt' = AppendHandler(tmp[p], arg[p])
    /\ tmp' = [tmp EXCEPT ![p] = << >>]
    /\ apc' = [apc EXCEPT ![p] = "unlock"]
    /\ UNCHANGED << aiMu, running, skip, startLocals, seen, signals,
                    arg, ret, outcome, hist >>
    /\ UNCHANGED << optvars, fakevars >>

\* lines 92, 94: return f, with the deferred aiMu.Unlock()
AtReturn(p) ==
    /\ Alive
    /\ apc[p] = "unlock"
    /\ aiMu' = NoOne
    /\ ret' = arg[p]
    /\ arg' = [arg EXCEPT ![p] = "nil"]
    /\ apc' = [apc EXCEPT ![p] = "idle"]
    /\ hist' = [hist EXCEPT !.completed = @ + 1,
                            !.returned = Append(@, arg[p])]
    /\ UNCHANGED << atInterrupt, running, skip, startLocals, seen, signals,
                    tmp, outcome >>
    /\ UNCHANGED << optvars, fakevars >>

(* ----------------------------- environment ---------------------------- *)

\* (mutation: a signal sent before Notify is kept for the channel)
SendSignalKept ==
    /\ Alive
    /\ sigchan' = [p \in Starters |-> 1]
    /\ hist' = [hist EXCEPT
                  !.delivered = TRUE,
                  !.fatalAtSignal = IF hist.delivered THEN @ ELSE hist.fatalReq,
                  !.sentSnap = IF hist.delivered THEN @ ELSE hist.returned]
    /\ UNCHANGED << globals, startLocals, seen, subscribed, atLocals, outcome >>
    /\ UNCHANGED << optvars, fakevars >>

\* SIGINT is sent to the process.  The os/signal package puts it into every
\* channel Notify registered, without blocking: a channel whose buffer is
\* full misses it.  While no channel is registered the signal has its
\* default effect and ends the process (killed by the signal: there is no
\* exit status of its own).
SendSignal ==
    /\ Alive
    /\ IF subscribed = {}
          THEN /\ exit' = "killed"
               /\ UNCHANGED << sigchan, hist >>
          ELSE /\ sigchan' = [p \in Starters |->
                                IF p \in subscribed /\ sigchan[p] < 1
                                   THEN sigchan[p] + 1 ELSE sigchan[p]]
               /\ UNCHANGED << exit >>
               /\ hist' = [hist EXCEPT
                             !.delivered = TRUE,
                             !.fatalAtSignal = IF hist.delivered THEN @ ELSE hist.fatalReq,
                             !.sentSnap = IF hist.delivered THEN @ ELSE hist.returned]
    /\ UNCHANGED << globals, startLocals, seen, subscribed, atLocals,
                    status, stderr, traceback >>
    /\ UNCHANGED << optvars, fakevars >>

(* ------------------------------ options ------------------------------ *)

\* Options.EscapeNewline: the rune that is left unescaped
EscapeRune(b) == IF b THEN " " ELSE "\n"

\* What the caller's object is after a method with a value receiver, whose
\* body worked on a copy, and after one with a pointer receiver.
AfterValueCall(old, new) == old

AfterPointerCall(old, new) == new

\* (mutation: a new object starts from the initial settings)
NewOptionsInitial == InitialOptions

\* New: TUTL{t, Default}
NewOptions == Default

\* u := New(t)
New(u) ==
    /\ tutl' = [tutl EXCEPT ![u] = NewOptions]
    /\ last' = [op |-> "New", obj |-> u, b |-> FALSE, n |-> 0]
    /\ UNCHANGED << Default, intvars, fakevars >>

\* (mutation: the method changes the global, as the function EscapeNewline)
TutlEscapeNewlineGlobal(u, b) ==
    /\ tutl[u] # NoOptions
    /\ Default' = [Default EXCEPT !.doNotEscape = EscapeRune(b)]
    /\ last' = [op |-> "TUTL.EscapeNewline", obj |-> u, b |-> b, n |-> 0]
    /\ UNCHANGED << tutl, intvars, fakevars >>

\* func (u *TUTL) EscapeNewline(b bool)
TutlEscapeNewline(u, b) ==
    /\ tutl[u] # NoOptions
    /\ tutl' = [tutl EXCEPT ![u] =
                  AfterPointerCall(@, [@ EXCEPT !.doNotEscape = EscapeRune(b)])]
    /\ last' = [op |-> "TUTL.EscapeNewline", obj |-> u, b |-> b, n |-> 0]
    /\ UNCHANGED << Default, intvars, fakevars >>

\* func (u *TUTL) SetLineWidth(w int)
TutlSetLineWidth(u, w) ==
    /\ tutl[u] # NoOptions
    /\ tutl' = [tutl EXCEPT ![u] = AfterPointerCall(@, [@ EXCEPT !.LineWidth = w])]
    /\ last' = [op |-> "TUTL.SetLineWidth", obj |-> u, b |-> FALSE, n |-> w]
    /\ UNCHANGED << Default, intvars, fakevars >>

\* func (u TUTL) SetDigits32(d int)
TutlSetDigits32(u, d) ==
    /\ tutl[u] # NoOptions
    /\ tutl' = [tutl EXCEPT ![u] = AfterValueCall(@, [@ EXCEPT !.Digits32 = d])]
    /\ last' = [op |-> "TUTL.SetDigits32", obj |-> u, b |-> FALSE, n |-> d]
    /\ UNCHANGED << Default, intvars, fakevars >>

\* func (u TUTL) SetDigits64(d int)
TutlSetDigits64(u, d) ==
    /\ tutl[u] # NoOptions
    /\ tutl' = [tutl EXCEPT ![u] = AfterValueCall(@, [@ EXCEPT !.Digits64 = d])]
    /\ last' = [op |-> "TUTL.SetDigits64", obj |-> u, b |-> FALSE, n |-> d]
    /\ UNCHANGED << Default, intvars, fakevars >>

\* func EscapeNewline(b bool) { Default.EscapeNewline(b) }
DefaultEscapeNewline(b) ==
    /\ Default' = AfterPointerCall(Default, [Default EXCEPT !.doNotEscape = EscapeRune(b)])
    /\ last' = [op |-> "EscapeNewline", obj |-> NoObj, b |-> b, n |-> 0]
    /\ UNCHANGED << tutl, intvars, fakevars >>

\* tutl.Default.LineWidth = w
DefaultSetLineWidth(w) ==
    /\ Default' = [Default EXCEPT !.LineWidth = w]
    /\ last' = [op |-> "Default.LineWidth", obj |-> NoObj, b |-> FALSE, n |-> w]
    /\ UNCHANGED << tutl, intvars, fakevars >>

\* func SetDigits32(d int) { Default.SetDigits32(d) }
DefaultSetDigits32(d) ==
    /\ Default' = AfterPointerCall(Default, [Default EXCEPT !.Digits32 = d])
    /\ last' = [op |-> "SetDigits32", obj |-> NoObj, b |-> FALSE, n |-> d]
    /\ UNCHANGED << tutl, intvars, fakevars >>

\* func SetDigits64(d int) { Default.SetDigits64(d) }
DefaultSetDigits64(d) ==
    /\ Default' = AfterPointerCall(Default, [Default EXCEPT !.Digits64 = d])
    /\ last' = [op |-> "SetDigits64", obj |-> NoObj, b |-> FALSE, n |-> d]
    /\ UNCHANGED << tutl, intvars, fakevars >>

(* ----------------------------- FakeTester ----------------------------- *)

\* fmt.Fprintln(out.Output, args...)
LogText(m) == Append(m, "\n")

\* Logf: a newline is added to a format that does not end in one
LogfText(m) == IF m = << >> \/ m[Len(m)] # "\n" THEN Append(m, "\n") ELSE m

\* func (out FakeTester) Failed() bool
Failed(t) == fake[t].HasFailed

\* mine := FakeTester{w, h}
MakeTester(t, h) ==
    /\ t # "StdoutTester"
    /\ fake' = [fake EXCEPT ![t] = [HasFailed |-> h]]
    /\ output' = [output EXCEPT ![t] = {}]
    /\ fhist' = [fhist EXCEPT !.initial[t] = h, !.errored = @ \ {t}]
    /\ UNCHANGED << intvars, optvars >>

\* func (out FakeTester) Log(args ...any)
FakeLog(t, m) ==
    /\ output' = [output EXCEPT ![t] = @ \cup {LogText(m)}]
    /\ UNCHANGED << fake, fhist, intvars, optvars >>

\* func (out FakeTester) Logf(format string, args ...any)
FakeLogf(t, m) ==
    /\ output' = [output EXCEPT ![t] = @ \cup {LogfText(m)}]
    /\ UNCHANGED << fake, fhist, intvars, optvars >>

\* func (out FakeTester) Error(args ...any)
FakeError(t, m) ==
    /\ output' = [output EXCEPT ![t] = @ \cup {LogText(m)}]
    /\ fake' = [fake EXCEPT ![t] = AfterValueCall(@, [@ EXCEPT !.HasFailed = TRUE])]
    /\ fhist' = [fhist EXCEPT !.errored = @ \cup {t}]
    /\ UNCHANGED << intvars, optvars >>

\* func (out FakeTester) Errorf(format string, args ...any)
FakeErrorf(t, m) ==
    /\ output' = [output EXCEPT ![t] = @ \cup {LogfText(m)}]
    /\ fake' = [fake EXCEPT ![t] = AfterValueCall(@, [@ EXCEPT !.HasFailed = TRUE])]
    /\ fhist' = [fhist EXCEPT !.errored = @ \cup {t}]
    /\ UNCHANGED << intvars, optvars >>

(* ------------------------------- Next --------------------------------- *)

Next ==
    \/ \E p \in Starters, a \in ShowArgs : StartLock(p, a)
    \/ \E p \in Starters : StartDuplicate(p)
    \/ \E p \in Starters : StartActivate(p)
    \/ \E p \in Starters : StartNotify(p)
    \/ \E p \in Starters : StartReceive(p)
    \/ \E p \in Starters : DrainCopy(p)
    \/ \E p \in Starters : DrainUnlock(p)
    \/ \E p \in Starters : HandlerBegin(p)
    \/ \E p \in Starters, a \in ShowArgs : NestedStartLock(p, a)
    \/ \E p \in Starters : NestedStartDuplicate(p)
    \/ \E p \in Starters : HandlerReturn(p)
    \/ \E p \in Starters : ReadSkip(p)
    \/ \E p \in Starters : QuietExit(p)
    \/ \E p \in Starters : FatalExit(p)
    \/ \E p \in Registrants, f \in Funcs : AtCall(p, f)
    \/ \E p \in Starters : AtLock(p)
    \/ \E p \in Procs : AtWrite(p)
    \/ \E p \in Procs : AtReturn(p)
    \/ SendSignal

Spec == Init /\ [][Next]_vars

\* The steps a goroutine takes without waiting for anything but the
\* scheduler ...
RunStep(p) ==
    \/ p \in Starters /\ \/ StartDuplicate(p)
                         \/ StartActivate(p)
                         \/ StartNotify(p)
                         \/ StartReceive(p)
                         \/ DrainUnlock(p)
                         \/ HandlerBegin(p)
                         \/ NestedStartDuplicate(p)
                         \/ HandlerReturn(p)
                         \/ ReadSkip(p)
                         \/ QuietExit(p)
                         \/ FatalExit(p)
    \/ AtWrite(p)
    \/ AtReturn(p)

\* ... and those in which a Lock of aiMu inside a running call returns.
LockStep(p) ==
    \/ DrainCopy(p)
    \/ AtLock(p)
    \/ \E a \in ShowArgs : NestedStartLock(p, a)

\* The scheduler runs every goroutine that can run, and a goroutine that
\* waits in Lock gets the mutex (sync.Mutex hands it to a waiter that has
\* waited long).  Nothing obliges the program to make new calls or anybody
\* to send a signal.
Fairness ==
    /\ \A p \in Procs : WF_vars(RunStep(p))
    /\ \A p \in Starters : SF_vars(LockStep(p))

FairSpec == Spec /\ Fairness

\* The calls on the options of a test, with the interrupt code at rest.
OptNext ==
    \/ \E u \in Objs : New(u)
    \/ \E u \in Objs, b \in BOOLEAN : TutlEscapeNewline(u, b)
    \/ \E u \in Objs, w \in Widths : TutlSetLineWidth(u, w)
    \/ \E u \in Objs, d \in Digits32Values : TutlSetDigits32(u, d)
    \/ \E u \in Objs, d \in Digits64Values : TutlSetDigits64(u, d)
    \/ \E b \in BOOLEAN : DefaultEscapeNewline(b)
    \/ \E w \in Widths : DefaultSetLineWidth(w)
    \/ \E d \in Digits32Values : DefaultSetDigits32(d)
    \/ \E d \in Digits64Values : DefaultSetDigits64(d)

OptSpec == Init /\ [][OptNext]_vars

\* The calls on the FakeTesters, with the rest of the package at rest.
FakeNext ==
    \/ \E t \in Testers, h \in BOOLEAN : MakeTester(t, h)
    \/ \E t \in Testers, m \in Msgs : FakeLog(t, m)
    \/ \E t \in Testers, m \in Msgs : FakeLogf(t, m)
    \/ \E t \in Testers, m \in Msgs : FakeError(t, m)
    \/ \E t \in Testers, m \in Msgs : FakeErrorf(t, m)

FakeSpec == Init /\ [][FakeNext]_vars

(* ---------------------------- properties ------------------------------ *)

\* The watcher has left the loop over its copy (it is at line 60 or beyond).
DrainComplete == \E p \in Starters : pc[p] \in {"print", "trace", "exited"}

\* The watcher ended the process at line 62 or line 65.
WatcherExit == exit \in {"quiet", "fatal"}

AllCallsReturned == \A p \in Procs : apc[p] = "idle"

\* C1: the AtInterrupt calls that had returned when the signal was sent are
\* run by the drain in exactly the reverse of their order: the last calls
\* the finished drain made are those functions, last registered first (what
\* it called before them was registered after the signal was sent).
C1_ReverseOrder ==
    DrainComplete => IsSuffix(Reverse(hist.sentSnap), hist.invoked)

C1_Witness ==
    /\ DrainComplete
    /\ Len(hist.sentSnap) >= 2
    /\ hist.sentSnap[1] # hist.sentSnap[2]

\* C2: however many ShowStackOnInterrupt calls are made, at most one of
\* them gets past line 39: signal.Notify is called at most once, at most one
\* channel is subscribed and at most one goroutine is at or beyond the wait.
C2_OneWatcher ==
    /\ hist.notifies <= 1
    /\ Cardinality(subscribed) <= 1
    /\ Cardinality({p \in Starters : pc[p] \notin {"idle", "check"}}) <= 1

C2_Witness ==
    /\ hist.notifies = 1
    /\ hist.duplicate
    /\ \E p \in Starters : pc[p] = "wait"
    /\ \E p \in Starters : pc[p] = "check" /\ running > 0

\* C3: if a call with no argument or true has made its request (lines
\* 32-35) by the time the watcher takes the lock for its copy, the watcher
\* never takes the quiet branch: it ends the process by the panic, whichever
\* call became the watcher and whatever calls with false were made.
C3_FatalWins ==
    hist.fatalAtSnap =>
        /\ \A p \in Starters : pc[p] # "print"
        /\ exit # "quiet"

C3_Witness ==
    /\ exit = "fatal"
    /\ hist.duplicate
    /\ \E p \in Starters : pc[p] = "exited" /\ show[p] = "false"

\* C4: while only calls with false have been made, the watcher never
\* reaches the panic of lines 64-65, and when it ends the process it has
\* written exactly the line "Interrupted." and the status is 1.
C4_QuietOnly ==
    ~hist.fatalReq =>
        /\ \A p \in Starters : pc[p] # "trace"
        /\ exit # "fatal"
        /\ (\E p \in Starters : pc[p] = "exited") =>
              /\ exit = "quiet"
              /\ status = 1
              /\ stderr = << "Interrupted." >>

C4_Witness ==
    /\ exit = "quiet"
    /\ ~hist.fatalReq
    /\ hist.duplicate
    /\ Len(hist.invoked) >= 1

\* C5: if a call with no argument or true made its request before the
\* watcher took the lock for its copy, the status is never 1, and once the
\* watcher has ended the process the outcome is the panic: "Interrupted" with
\* the stacks of all goroutines on standard error, and status 2.
C5_FatalOutcome ==
    hist.fatalAtSnap =>
        /\ status # 1
        /\ (\E p \in Starters : pc[p] = "exited") =>
              /\ exit = "fatal"
              /\ status = 2
              /\ traceback = "all"
              /\ stderr = << "panic: Interrupted", "goroutine stacks (all)" >>

C5_Witness ==
    /\ exit = "fatal"
    /\ hist.fatalAtSnap
    /\ status = 2
    /\ Len(hist.invoked) >= 1

\* C6: when the watcher is at line 60 or beyond, in particular when it has
\* ended the process, every function of its copy has been called and has
\* returned.
C6_DrainBeforeExit ==
    \A p \in Starters :
        pc[p] \in {"print", "trace", "exited"} =>
            /\ Len(hist.invoked) = Len(cp[p])
            /\ hist.handlersDone = Len(cp[p])
            /\ apc[p] = "idle"

C6_Witness ==
    /\ WatcherExit
    /\ \E p \in Starters : pc[p] = "exited" /\ Len(cp[p]) >= 2
    /\ hist.handlersDone >= 2

\* C7: the assignment of line 93 adds exactly the argument at the end of
\* the list and leaves the entries before it in place, and the return that
\* follows returns that argument and leaves the list alone.
C7_AppendOne ==
    [][ \A p \in Procs :
          /\ (apc[p] = "write" /\ apc'[p] = "unlock") =>
                /\ atInterrupt' = Append(atInterrupt, arg[p])
                /\ Len(atInterrupt') = Len(atInterrupt) + 1
          /\ (apc[p] = "unlock" /\ apc'[p] = "idle") =>
                /\ ret' = arg[p]
                /\ atInterrupt' = atInterrupt ]_vars

C7_Witness ==
    /\ ret = "reg"
    /\ Len(atInterrupt) >= 2
    /\ atInterrupt[Len(atInterrupt)] = "reg"
    /\ AllCallsReturned

\* C8: a function is called by the drain once for each of its registrations
\* that had returned when the copy was made, also when it was registered
\* more than once, and the k-th registration is the k-th call from the end.
C8_OncePerRegistration ==
    DrainComplete =>
        /\ \A f \in Funcs : Count(hist.invoked, f) = Count(hist.returnedAtSnap, f)
        /\ \A k \in 1..Len(hist.returnedAtSnap) :
              /\ Len(hist.invoked) - k + 1 >= 1
              /\ hist.invoked[Len(hist.invoked) - k + 1] = hist.returnedAtSnap[k]

C8_Witness ==
    /\ DrainComplete
    /\ Len(hist.returnedAtSnap) >= 2
    /\ hist.returnedAtSnap[1] = hist.returnedAtSnap[2]
    /\ Count(hist.invoked, hist.returnedAtSnap[1]) = 2

\* C9: no registration is lost or duplicated: the list always holds the
\* arguments of the calls that returned, in their order, as its beginning,
\* and when no call is in progress it is exactly the calls made, one entry
\* for each, in the order in which they got the mutex.
C9_NoLostRegistration ==
    /\ IsPrefix(hist.returned, atInterrupt)
    /\ IsPrefix(atInterrupt, hist.lockOrder)
    /\ AllCallsReturned =>
          /\ atInterrupt = hist.lockOrder
          /\ Len(atInterrupt) = hist.completed

C9_Witness ==
    /\ AllCallsReturned
    /\ Registrants \subseteq hist.callers
    /\ \E p \in Starters : pc[p] = "handler"
    /\ Len(atInterrupt) > Len(hist.snapAt)
    /\ Len(hist.snapAt) >= 1

\* C10: what the drain calls is the reverse of the list as it was when the
\* copy was made: every call so far is the next element of that reversed
\* list, the finished drain has called all of it and nothing else, every
\* registration that had returned by then is in it, and one that is added
\* later is not.
C10_SnapshotOnly ==
    hist.snapTaken =>
        /\ IsPrefix(hist.invoked, Reverse(hist.snapAt))
        /\ IsPrefix(hist.returnedAtSnap, hist.snapAt)
        /\ DrainComplete => hist.invoked = Reverse(hist.snapAt)

C10_Witness ==
    /\ DrainComplete
    /\ Len(hist.snapAt) >= 2
    /\ Len(atInterrupt) >= Len(hist.snapAt) + 2
    /\ \E i \in 1..Len(hist.invoked) : hist.invoked[i] = "reg"

\* C11: every change of atInterrupt, running and skip, and every read of
\* them that decides what the code does next, in particular the "if skip" of
\* line 60, is made by a goroutine that holds aiMu.  (The code reads skip at
\* line 60 after the Unlock of line 53.)
C11_AllUnderMutex ==
    [][ /\ atInterrupt' # atInterrupt => (aiMu # NoOne /\ aiMu' = aiMu)
        /\ running' # running => aiMu # NoOne
        /\ skip' # skip => aiMu' # NoOne
        /\ \A p \in Starters :
              /\ (pc[p] = "check" /\ pc'[p] # "check") => aiMu = p
              /\ (pc[p] = "lock2" /\ pc'[p] # "lock2") => aiMu' = p
              /\ (pc[p] = "loop" /\ pc'[p] \in {"print", "trace"}) => aiMu = p ]_vars

\* C12: a registered function that panics ends the drain: it is the last
\* function called, the functions after it in the copy are not called, and
\* the watcher reaches neither line 60 nor an exit of its own; the process
\* ends with that panic.
C12_PanicPreempts ==
    \A i \in 1..Len(hist.invoked) :
        hist.invoked[i] = "boom" =>
            /\ i = Len(hist.invoked)
            /\ hist.handlersDone = i - 1
            /\ exit = "handlerpanic"
            /\ stderr = << "panic: boom", "goroutine stacks" >>
            /\ \A p \in Starters : pc[p] \notin {"print", "trace", "exited"}
            /\ \E p \in Starters : pc[p] = "panicked" /\ idx[p] = i

C12_Witness ==
    /\ exit = "handlerpanic"
    /\ \E p \in Starters : pc[p] = "panicked" /\ idx[p] < Len(cp[p])

\* C13: ShowStackOnInterrupt(false) called while a watcher is running
\* changes nothing: its locked part leaves skip, running and atInterrupt as
\* they are (a skip that is false stays false), and it returns without
\* subscribing.
C13_QuietNoOp ==
    [][ \A p \in Starters :
          /\ (pc[p] = "idle" /\ pc'[p] = "check" /\ show'[p] = "false" /\ running > 0) =>
                /\ skip' = skip
                /\ running' = running
                /\ atInterrupt' = atInterrupt
          /\ (pc[p] = "check" /\ pc'[p] # "check" /\ show[p] = "false" /\ running > 0) =>
                /\ pc'[p] = "idle"
                /\ skip' = skip
                /\ running' = running
                /\ atInterrupt' = atInterrupt
                /\ subscribed' = subscribed ]_vars

C13_Witness ==
    /\ ~skip
    /\ running > 0
    /\ \E p \in Starters : pc[p] = "check" /\ show[p] = "false"
    /\ \E q \in Starters : pc[q] = "wait"

\* C14: skip is false exactly when one of the calls that have executed
\* lines 32-35 had no argument or true, whichever call became the watcher: a
\* request is merged also when its call returns at line 38.
C14_ModeMerged ==
    skip = ~hist.fatalReq

C14_Witness ==
    /\ ~skip
    /\ hist.duplicate
    /\ \E p \in Starters : pc[p] = "wait" /\ show[p] = "false"
    /\ \A p \in Starters : pc[p] \in {"idle", "wait"}

\* C15: while no signal has been put into a watcher's channel, or no
\* ShowStackOnInterrupt call has subscribed, no registered function has been
\* called and the code has not ended the process: no goroutine is beyond
\* the wait of line 45.
C15_NoSignalNoDrain ==
    (~hist.delivered \/ hist.notifies = 0) =>
        /\ hist.invoked = << >>
        /\ exit \notin {"quiet", "fatal", "handlerpanic"}
        /\ \A p \in Starters : pc[p] \in {"idle", "check", "notify", "wait"}

C15_Witness ==
    /\ ~hist.delivered
    /\ Len(atInterrupt) >= 2
    /\ hist.invoked = << >>
    /\ \E p \in Starters : pc[p] = "wait"
    /\ AllCallsReturned

\* C16 as claimed: the watcher ends the process in the mode that the calls
\* made before the signal arrived had set.
C16_ModeFixedAtSignal ==
    WatcherExit => ((exit = "fatal") <=> hist.fatalAtSignal)

\* C16, amended: the mode is the one set by the calls made until the watcher
\* reads skip at line 60.  A request for the panic made before the signal
\* arrived always gives the panic, a request made after it can still turn
\* the quiet exit into the panic, and without any request the exit is quiet.
C16_ModeOnlyUpgrades ==
    WatcherExit =>
        /\ hist.fatalAtSignal => exit = "fatal"
        /\ exit = "fatal" => hist.fatalReq

C16_Witness ==
    /\ exit = "fatal"
    /\ hist.delivered
    /\ ~hist.fatalAtSignal

\* C17: New gives the new object the settings Default has at that moment
\* and changes nothing else; EscapeNewline and SetLineWidth of an object
\* set that object's field and change neither Default nor another object;
\* a change of Default changes no object.
C17_Independent ==
    [][ /\ last'.op = "New" =>
              /\ tutl'[last'.obj] = Default
              /\ Default' = Default
              /\ \A v \in Objs \ {last'.obj} : tutl'[v] = tutl[v]
        /\ last'.op = "TUTL.EscapeNewline" =>
              /\ tutl'[last'.obj] = [tutl[last'.obj] EXCEPT !.doNotEscape =
                                        IF last'.b THEN " " ELSE "\n"]
              /\ Default' = Default
              /\ \A v \in Objs \ {last'.obj} : tutl'[v] = tutl[v]
        /\ last'.op = "TUTL.SetLineWidth" =>
              /\ tutl'[last'.obj] = [tutl[last'.obj] EXCEPT !.LineWidth = last'.n]
              /\ Default' = Default
              /\ \A v \in Objs \ {last'.obj} : tutl'[v] = tutl[v]
        /\ last'.op \in {"EscapeNewline", "Default.LineWidth", "SetDigits32", "SetDigits64"} =>
              tutl' = tutl ]_vars

C17_Witness ==
    /\ last.op = "TUTL.EscapeNewline"
    /\ \A u \in Objs : tutl[u] # NoOptions
    /\ tutl["u1"].doNotEscape # Default.doNotEscape
    /\ tutl["u2"].LineWidth # Default.LineWidth
    /\ tutl["u1"].LineWidth # tutl["u2"].LineWidth
    /\ Default # InitialOptions

\* C18: after u.SetDigits32(d) the Digits32 of u is d, after u.SetDigits64(d)
\* the Digits64 of u is d, and Default is as it was.  (The two methods have
\* value receivers: they set the field of a copy of u.)
C18_SetDigits ==
    [][ /\ last'.op = "TUTL.SetDigits32" =>
              tutl'[last'.obj].Digits32 = last'.n /\ Default' = Default
        /\ last'.op = "TUTL.SetDigits64" =>
              tutl'[last'.obj].Digits64 = last'.n /\ Default' = Default ]_vars

\* C19: the watcher does not hold aiMu while it waits for the signal nor
\* while a registered function runs (only the function's own call into the
\* package holds it, between its Lock and its Unlock), so such a call finds
\* the mutex free of its caller.
C19_MutexNotHeldAcrossCallbacks ==
    \A p \in Starters :
        /\ pc[p] \in {"notify", "wait", "lock2", "loop", "print", "trace"} => aiMu # p
        /\ (pc[p] = "handler" /\ apc[p] \in {"idle", "lock", "start"}) => aiMu # p

C19_Witness ==
    /\ DrainComplete
    /\ hist.invoked = << "reg", "reg" >>
    /\ hist.handlersDone = 2
    /\ Len(atInterrupt) = Len(hist.snapAt) + 1
    /\ Len(hist.lockOrder) = Len(atInterrupt)

\* The phase of the watcher.  A process that a signal ended before any
\* subscription, or that a panic of a registered function ended, stays in
\* the phase it was in.
Phase ==
    CASE exit = "quiet" -> "QUIET_EXIT"
      [] exit = "fatal" -> "FATAL_EXIT"
      [] exit \notin {"quiet", "fatal"}
         /\ \E p \in Starters : pc[p] \in {"lock2", "unlock2", "loop", "handler",
                                           "panicked", "print", "trace", "exited"}
           -> "DRAINING"
      [] exit \notin {"quiet", "fatal"}
         /\ \E p \in Starters : pc[p] = "wait"
           -> "WAITING"
      [] OTHER -> "IDLE"

\* C20: the phase only moves IDLE -> WAITING -> DRAINING -> QUIET_EXIT or
\* FATAL_EXIT; running never decreases; once the drain has begun no call
\* starts to wait; nothing changes after an exit.
C20_PhaseOrder ==
    [][ /\ \/ Phase' = Phase
           \/ << Phase, Phase' >> \in { << "IDLE", "WAITING" >>,
                                        << "WAITING", "DRAINING" >>,
                                        << "DRAINING", "QUIET_EXIT" >>,
                                        << "DRAINING", "FATAL_EXIT" >> }
        /\ running' >= running
        /\ Phase \in {"DRAINING", "QUIET_EXIT", "FATAL_EXIT"} =>
              \A p \in Starters : pc'[p] = "wait" => pc[p] = "wait"
        /\ Phase \in {"QUIET_EXIT", "FATAL_EXIT"} => vars' = vars ]_vars

C20_Witness ==
    /\ Phase = "DRAINING"
    /\ running = 1
    /\ \E p \in Starters : pc[p] = "check"
    /\ \E q \in Starters : pc[q] = "handler"

\* C21: no step sets skip back to true: when skip is false before a step
\* it is false after it.
C21_FatalMonotonic ==
    [][ ~skip => ~skip' ]_vars

C21_Witness ==
    /\ ~skip
    /\ DrainComplete
    /\ \E p \in Starters : pc[p] = "check" /\ show[p] = "false"

\* C22: once the watcher has received the signal, the process ends: by
\* os.Exit(1) or the panic of line 65 if every registered function returns
\* (otherwise by the panic of a registered function).
C22_DrainEndsProcess ==
    hist.received ~> (WatcherExit \/ exit = "handlerpanic")

C22_Witness ==
    /\ WatcherExit
    /\ hist.handlersDone >= 2
    /\ \E i \in 1..Len(hist.invoked) : hist.invoked[i] = "reg"
    /\ hist.duplicate

\* The ShowStackOnInterrupt calls that have received a signal.
PastWait == {p \in Starters : pc[p] \notin {"idle", "check", "notify", "wait"}}

\* C23: at most one call ever leaves the wait of line 45, it copies the
\* handlers once, and the functions it has called are the first ones of
\* the reverse of that copy's source, each position once; a signal that
\* arrives later stays in the channel.
C23_SignalConsumedOnce ==
    /\ Cardinality(PastWait) <= 1
    /\ hist.received => Cardinality(PastWait) = 1
    /\ IsPrefix(hist.invoked, Reverse(hist.snapAt))
    /\ \A p \in Starters : pc[p] = "wait" => ~hist.received

C23_Witness ==
    /\ DrainComplete
    /\ Len(hist.invoked) >= 2
    /\ \E p \in PastWait : sigchan[p] = 1

\* C24: at most one registered function is running, and a function is
\* called only when all functions called before it have returned.
C24_OneAtATime ==
    /\ Cardinality({p \in Starters : pc[p] \in {"handler", "panicked"}}) <= 1
    /\ IF \E p \in Starters : pc[p] \in {"handler", "panicked"}
          THEN Len(hist.invoked) = hist.handlersDone + 1
          ELSE Len(hist.invoked) = hist.handlersDone

C24_Witness ==
    /\ hist.handlersDone = 1
    /\ Len(hist.invoked) = 2
    /\ \E p \in Starters : pc[p] = "handler" /\ idx[p] = 2

\* C25: every step leaves atInterrupt as it is or extends it at the end:
\* the value before the step is a prefix of the value after it.
C25_AppendOnly ==
    [][ IsPrefix(atInterrupt, atInterrupt') ]_vars

C25_Witness ==
    /\ WatcherExit
    /\ Len(hist.invoked) >= 2
    /\ Len(atInterrupt) > Len(hist.snapAt)

\* The goroutine is between a Lock of aiMu and the Unlock that follows.
InCritical(p) ==
    \/ p \in Starters /\ pc[p] \in {"check", "unlock2"}
    \/ apc[p] \in {"write", "unlock", "check"}

\* C26: a goroutine inside a locked part of the code holds the mutex, so no
\* two are inside at once: never the copy of lines 48-52 together with the
\* append of line 93.
C26_CopyExcludesAppend ==
    /\ \A p \in Procs : InCritical(p) => aiMu = p
    /\ \A p \in Starters, q \in Procs :
          pc[p] = "unlock2" => apc[q] \notin {"write", "unlock"}

C26_Witness ==
    /\ \E p \in Starters : pc[p] = "unlock2" /\ Len(cp[p]) >= 1
    /\ hist.calls < MaxRegs
    /\ \E q \in Starters : pc[q] = "idle"

\* C27: again and again no AtInterrupt call is in progress, unless the
\* process has ended.  So no call stays in progress for ever: every
\* AtInterrupt call that has begun returns or the process ends first,
\* whatever the other goroutines do and whichever path a
\* ShowStackOnInterrupt call that held the mutex took.
AtInterruptInProgress(p) == apc[p] \in {"lock", "write", "unlock"}

C28_AtInterruptFrame ==
    [][ (\E p \in Procs : /\ apc'[p] # apc[p]
                          /\ \/ apc[p] \in {"write", "unlock"}
                             \/ apc'[p] = "write")
        => /\ running' = running
           /\ skip' = skip
           /\ pc' = pc
           /\ subscribed' = subscribed
           /\ sigchan' = sigchan
           /\ exit' = exit ]_vars

C28_Witness ==
    /\ Len(atInterrupt) >= 2
    /\ running = 0
    /\ skip
    /\ subscribed = {}
    /\ AllCallsReturned
    /\ hist.completed = Len(atInterrupt)

\* C29: running is set (line 40) before the subscription is made (line
\* 44): a channel is subscribed only by a call that has set running, a
\* signal reaches only subscribed channels, and a signal sent while running
\* is set but nothing is subscribed ends the process without any
\* registered function being called.
C29_ActivatedBeforeSubscribed ==
    /\ subscribed # {} => running > 0
    /\ \A p \in Starters : pc[p] = "notify" => (running > 0 /\ p \notin subscribed)
    /\ \A p \in Starters : sigchan[p] > 0 => p \in subscribed
    /\ exit = "killed" =>
          /\ subscribed = {}
          /\ hist.invoked = << >>
          /\ ~hist.received

C29_Witness ==
    /\ exit = "killed"
    /\ running = 1
    /\ hist.duplicate
    /\ Len(atInterrupt) >= 1
    /\ \E p \in Starters : pc[p] = "notify"

\* C30: Failed() of a FakeTester is true once Error or Errorf has been
\* called on it, and is the HasFailed it was constructed with until then.
\* (Error and Errorf have value receivers: they set HasFailed in a copy.)
C30_FailedAfterError ==
    \A t \in Testers :
        Failed(t) = IF t \in fhist.errored THEN TRUE ELSE fhist.initial[t]

=============================================================================
